---- MODULE Spec2Model ----
(***************************************************************************)
(* The scrape loop of nws_exporter (src/main.go): a goroutine that fetches *)
(* the current observation of one weather station, copies its fields into  *)
(* Prometheus gauges and sleeps, forever.                                  *)
(*                                                                         *)
(* Conventions of the model                                                *)
(*   - a Go pointer is a sequence of length 0 (nil) or 1 (the pointee);    *)
(*   - float64 values are integers; times are whole seconds;               *)
(*   - a prometheus.Gauge is the integer it holds (0 when created), the    *)
(*     GaugeVec winddirection is a function from the label values that     *)
(*     WithLabelValues has created so far to the value of each series;     *)
(*   - `log` is the list of lines the current loop iteration has written,  *)
(*     `errs` counts the consecutive failed fetches (a history variable    *)
(*     that saturates at MaxErrs), `lastUpdate` records when the loop last *)
(*     set time_since_update and to what (a history variable), `now` is    *)
(*     the wall clock, saturating at the horizon MaxClock;                 *)
(*   - `lastValue` and `lastHeading` record, for every sensor and every    *)
(*     compass label, the last value a fetched observation carried, and    *)
(*     `slept` the sleeps taken since the last fetch (history variables);  *)
(*   - `step` is the position of the loop inside the field extraction and  *)
(*     `scraped` what a request to /metrics has read so far; they move     *)
(*     only in SpecFine, where the extraction is taken one Set at a time.  *)
(***************************************************************************)
EXTENDS Integers, Sequences, FiniteSets, TLC

VARIABLES
    pc,                 \* where the scrape loop stands
    failfast,           \* flag -failfast
    verbose,            \* flag -verbose
    backofftime,        \* flag -backofftime, seconds
    now,                \* wall clock, seconds
    response,           \* the observation of this iteration (pointer)
    missingProperties,  \* the local slice of this iteration
    log,                \* lines logged by this iteration
    errs,               \* consecutive failed fetches (history)
    lastUpdate,         \* clock and value of the last timeSinceUpdate.Set (history)
    lastValue,          \* sensor -> last value fetched, 0 if none (history)
    lastHeading,        \* compass label -> last heading fetched (history)
    slept,              \* durations slept since the last fetch (history)
    step,               \* statements of the field extraction done so far
    scraped,            \* the reads of the /metrics request in progress
    humidity, temperature, dewpoint, winddirection, windspeed,
    barometricpressure, sealevelpressure, visibility, timeSinceUpdate

config == <<failfast, verbose, backofftime>>

plain == <<humidity, temperature, dewpoint, windspeed,
           barometricpressure, sealevelpressure, visibility>>

gauges == <<plain, winddirection, timeSinceUpdate>>

hist == <<lastValue, lastHeading>>

fine == <<step, scraped>>

vars == <<pc, config, now, response, missingProperties, log, errs, lastUpdate,
          slept, hist, fine, gauges>>

\* ------------------------------------------------------------------ bounds
MaxVal == 1        \* distinct readings a sensor can report
MaxClock == 1      \* horizon of the wall clock
MaxErrs == 1       \* where the failure counter saturates
MaxDeg == 720      \* headings the cardinal mapping is checked on

\* Values of -backofftime the model is run with.
BackoffTimes == {1}

\* ------------------------------------------------------------ observation
Fields == <<"RelativeHumidity", "Temperature", "Dewpoint", "WindDirection",
            "WindSpeed", "BarometricPressure", "SeaLevelPressure", "Visibility">>

FieldNames == {Fields[i] : i \in 1..Len(Fields)}

Nil == <<>>

Ptr(x) == <<x>>

Min(a, b) == IF a <= b THEN a ELSE b

\* A sensor reading of the observation: a pointer to a struct whose Value is
\* a pointer to a float64.  Either pointer can be nil.
Present(v) == Ptr([Value |-> Ptr(v)])

NilValue == Ptr([Value |-> Nil])

AbsentForms == {Nil, NilValue}

\* The s-th reading of the i-th sensor; readings of different sensors differ.
Reading(i, s) == 10 * i + s

\* Headings the station reports: two that share a compass point and one
\* that does not.
WindDegrees == {0, 339, 318}

\* Which sensors an observation omits: none, one of them, or all of them.
Absences == {{}} \cup {{f} : f \in FieldNames} \cup {FieldNames}

Sensor(name, A, form, v) == IF name \in A THEN form ELSE Present(v)

Observation(ts, s, d, A, form) ==
    [Timestamp          |-> ts,
     RelativeHumidity   |-> Sensor("RelativeHumidity", A, form, Reading(1, s)),
     Temperature        |-> Sensor("Temperature", A, form, Reading(2, s)),
     Dewpoint           |-> Sensor("Dewpoint", A, form, Reading(3, s)),
     WindDirection      |-> Sensor("WindDirection", A, form, d),
     WindSpeed          |-> Sensor("WindSpeed", A, form, Reading(5, s)),
     BarometricPressure |-> Sensor("BarometricPressure", A, form, Reading(6, s)),
     SeaLevelPressure   |-> Sensor("SeaLevelPressure", A, form, Reading(7, s)),
     Visibility         |-> Sensor("Visibility", A, form, Reading(8, s))]

\* The observations a fetch can return when the clock shows t: the station
\* stamped them at t or earlier.
Observations(t) ==
    {Observation(ts, s, d, A, form) :
        ts \in 0..t, s \in 1..MaxVal, d \in WindDegrees,
        A \in Absences, form \in AbsentForms}

\* ------------------------------------------------------- pure operations
\* field != nil && field.Value != nil
HasValue(f) == f # Nil /\ f[1].Value # Nil

\* *field.Value
Deref(f) == f[1].Value[1]

\* if present { gauge.Set(*field.Value) }: the value the gauge holds after.
SetGaugeStuck(old, f) == old

SetGaugeZeroes(old, f) == IF HasValue(f) THEN Deref(f) ELSE 0

SetGauge(old, f) == IF HasValue(f) THEN Deref(f) ELSE old

\* else { missingProperties = append(missingProperties, name) }
AppendFrontIfMissing(m, f, name) == IF HasValue(f) THEN m ELSE <<name>> \o m

AppendIfMissing(m, f, name) == IF HasValue(f) THEN m ELSE Append(m, name)

\* The eight conditionals in the order of the source.
MissingOf(P) ==
    LET m1 == AppendIfMissing(<<>>, P.RelativeHumidity, "RelativeHumidity")
        m2 == AppendIfMissing(m1, P.Temperature, "Temperature")
        m3 == AppendIfMissing(m2, P.Dewpoint, "Dewpoint")
        m4 == AppendIfMissing(m3, P.WindDirection, "WindDirection")
        m5 == AppendIfMissing(m4, P.WindSpeed, "WindSpeed")
        m6 == AppendIfMissing(m5, P.BarometricPressure, "BarometricPressure")
        m7 == AppendIfMissing(m6, P.SeaLevelPressure, "SeaLevelPressure")
    IN  AppendIfMissing(m7, P.Visibility, "Visibility")

Compass == <<"N", "NE", "E", "SE", "S", "SW", "W", "NW">>

Labels == {Compass[i] : i \in 1..Len(Compass)}

\* round(d / 45) for an integer d >= 0 (a whole number of degrees is never
\* half-way between two multiples of 45, so every rounding mode agrees).
Round45(d) == (2 * d + 45) \div 90

\* CardinalDirection(d): bucket round(d / 45) mod 8 of the compass.
CardinalDirectionTruncates(d) == Compass[((d \div 45) % 8) + 1]

CardinalDirection(d) == Compass[(Round45(d) % 8) + 1]

\* winddirection.WithLabelValues(l).Set(d): the series l is created if it
\* does not exist and set; no other series is touched.
SetSeriesResets(wd, l, d) == [x \in {l} |-> d]

SetSeriesKeepsFirst(wd, l, d) ==
    [x \in DOMAIN wd \cup {l} |-> IF x \in DOMAIN wd THEN wd[x] ELSE d]

SetSeries(wd, l, d) == [x \in DOMAIN wd \cup {l} |-> IF x = l THEN d ELSE wd[x]]

\* The wind-direction conditional.
SetWindDirectionNorth(wd, f) ==
    IF HasValue(f) THEN SetSeries(wd, "N", Deref(f)) ELSE wd

SetWindDirection(wd, f) ==
    IF HasValue(f)
    THEN SetSeries(wd, CardinalDirection(Deref(f)), Deref(f))
    ELSE wd

\* time.Since(ts).Seconds() evaluated when the clock shows t.
SinceKeeps(t, ts) == timeSinceUpdate

Since(t, ts) == t - ts

\* time.Sleep(d): the clock has advanced by d when it returns.
Sleep(t, d) == Min(t + d, MaxClock)

\* time.Duration(backofftime) * time.Second, the argument of both sleeps.
BackoffEscalates == backofftime * (errs + 1)

BackoffDuration == backofftime

\* History: the last value each sensor carried in a fetched observation o.
SeenValue(last, o) ==
    [n \in FieldNames |-> IF HasValue(o[n]) THEN Deref(o[n]) ELSE last[n]]

\* History: the last heading fetched under each compass label.
SeenHeading(last, o) ==
    IF HasValue(o.WindDirection)
    THEN (CardinalDirection(Deref(o.WindDirection)) :> Deref(o.WindDirection)) @@ last
    ELSE last

\* No request to /metrics is being served.
NoScrape == [watch |-> <<>>, got |-> <<>>]

\* ------------------------------------------------------------------ init
Init ==
    /\ pc = "Polling"
    /\ failfast \in BOOLEAN
    /\ verbose \in BOOLEAN
    /\ backofftime \in BackoffTimes
    /\ now = 0
    /\ response = Nil
    /\ missingProperties = <<>>
    /\ log = <<>>
    /\ errs = 0
    /\ lastUpdate = [at |-> 0, age |-> 0]
    /\ lastValue = [n \in FieldNames |-> 0]
    /\ lastHeading = <<>>
    /\ slept = <<>>
    /\ step = 0
    /\ scraped = NoScrape
    /\ humidity = 0
    /\ temperature = 0
    /\ dewpoint = 0
    /\ winddirection = <<>>
    /\ windspeed = 0
    /\ barometricpressure = 0
    /\ sealevelpressure = 0
    /\ visibility = 0
    /\ timeSinceUpdate = 0

\* --------------------------------------------------------------- actions
\* RetrieveCurrentObservation returned err == nil and one of the
\* observations S.
Fetch(S) ==
    /\ pc = "Polling"
    /\ \E o \in S :
          /\ response' = Ptr([Properties |-> o])
          /\ lastValue' = SeenValue(lastValue, o)
          /\ lastHeading' = SeenHeading(lastHeading, o)
    /\ pc' = "Publishing"
    /\ slept' = <<>>
    /\ UNCHANGED <<config, now, missingProperties, log, errs, lastUpdate, fine, gauges>>

FetchOK == Fetch(Observations(now))

\* What the error branch does to the gauges: it calls no Set.
ErrorClearsGauges ==
    /\ timeSinceUpdate' = 0
    /\ UNCHANGED <<plain, winddirection>>

ErrorAgesGauges ==
    /\ timeSinceUpdate' = timeSinceUpdate + backofftime
    /\ UNCHANGED <<plain, winddirection>>

ErrorExpiresGauges ==
    /\ humidity' = 0
    /\ UNCHANGED <<temperature, dewpoint, windspeed, barometricpressure,
                   sealevelpressure, visibility, winddirection, timeSinceUpdate>>

ErrorGauges == UNCHANGED gauges

\* The lines the error branch logs when it does not exit.
ErrorLogOneLine == <<"Problem retrieving">>

ErrorLog == <<"Problem retrieving", "Waiting">>

\* err != nil and failfast: log.Fatalf logs and exits with status 1.
FetchFatalGoesOn ==
    /\ pc = "Polling"
    /\ failfast
    /\ pc' = "Backoff"
    /\ log' = <<"error">>
    /\ errs' = Min(errs + 1, MaxErrs)
    /\ ErrorGauges
    /\ slept' = <<>>
    /\ UNCHANGED <<config, now, response, missingProperties, lastUpdate, hist, fine>>

FetchFatal ==
    /\ pc = "Polling"
    /\ failfast
    /\ pc' = "Exited"
    /\ log' = <<"error">>
    /\ errs' = Min(errs + 1, MaxErrs)
    /\ ErrorGauges
    /\ slept' = <<>>
    /\ UNCHANGED <<config, now, response, missingProperties, lastUpdate, hist, fine>>

\* err != nil and not failfast: two log lines, then the sleep.
FetchFailed ==
    /\ pc = "Polling"
    /\ ~failfast
    /\ pc' = "Backoff"
    /\ log' = ErrorLog
    /\ errs' = Min(errs + 1, MaxErrs)
    /\ ErrorGauges
    /\ slept' = <<>>
    /\ UNCHANGED <<config, now, response, missingProperties, lastUpdate, hist, fine>>

\* time.Sleep of the error branch returns; `continue`.
BackoffGivesUp ==
    /\ pc = "Backoff"
    /\ pc' = IF errs >= MaxErrs THEN "Exited" ELSE "Polling"
    /\ now' = Sleep(now, BackoffDuration)
    /\ slept' = Append(slept, BackoffDuration)
    /\ log' = <<>>
    /\ UNCHANGED <<config, response, missingProperties, errs, lastUpdate, hist, fine, gauges>>

BackoffOver ==
    /\ pc = "Backoff"
    /\ pc' = "Polling"
    /\ now' = Sleep(now, BackoffDuration)
    /\ slept' = Append(slept, BackoffDuration)
    /\ log' = <<>>
    /\ UNCHANGED <<config, response, missingProperties, errs, lastUpdate, hist, fine, gauges>>

\* The lines a successful iteration logs, in order.
PublishLog(m) ==
    (IF verbose THEN <<"raw json response">> ELSE <<>>)
    \o (IF Len(m) # 0 THEN <<"some properties are missing">> ELSE <<>>)
    \o (IF verbose THEN <<"Waiting">> ELSE <<>>)

\* From the verbose log of the raw JSON to the verbose log of the wait.
Publish ==
    /\ pc = "Publishing"
    /\ LET P == response[1].Properties IN
        /\ timeSinceUpdate' = Since(now, P.Timestamp)
        /\ humidity' = SetGauge(humidity, P.RelativeHumidity)
        /\ temperature' = SetGauge(temperature, P.Temperature)
        /\ dewpoint' = SetGauge(dewpoint, P.Dewpoint)
        /\ winddirection' = SetWindDirection(winddirection, P.WindDirection)
        /\ windspeed' = SetGauge(windspeed, P.WindSpeed)
        /\ barometricpressure' = SetGauge(barometricpressure, P.BarometricPressure)
        /\ sealevelpressure' = SetGauge(sealevelpressure, P.SeaLevelPressure)
        /\ visibility' = SetGauge(visibility, P.Visibility)
        /\ missingProperties' = MissingOf(P)
        /\ log' = PublishLog(MissingOf(P))
        /\ lastUpdate' = [at |-> now, age |-> now - P.Timestamp]
    /\ pc' = "Sleeping"
    /\ UNCHANGED <<config, now, response, errs, slept, hist, fine>>

\* time.Sleep at the end of the loop body returns; the next iteration starts
\* with fresh locals.
SleepOnlyIfVerbose ==
    /\ pc = "Sleeping"
    /\ pc' = "Polling"
    /\ now' = IF verbose THEN Sleep(now, BackoffDuration) ELSE now
    /\ slept' = IF verbose THEN Append(slept, BackoffDuration) ELSE slept
    /\ response' = Nil
    /\ missingProperties' = <<>>
    /\ log' = <<>>
    /\ errs' = 0
    /\ UNCHANGED <<config, lastUpdate, hist, fine, gauges>>

SleepOver ==
    /\ pc = "Sleeping"
    /\ pc' = "Polling"
    /\ now' = Sleep(now, BackoffDuration)
    /\ slept' = Append(slept, BackoffDuration)
    /\ response' = Nil
    /\ missingProperties' = <<>>
    /\ log' = <<>>
    /\ errs' = 0
    /\ UNCHANGED <<config, lastUpdate, hist, fine, gauges>>

Loop == FetchOK \/ FetchFatal \/ FetchFailed \/ BackoffOver \/ Publish \/ SleepOver

Next == Loop

Spec == Init /\ [][Next]_vars

\* Progress does not depend on the readings: for the liveness of the loop
\* the station reports the first reading of every sensor, stamped with the
\* time of the fetch, with any of the absences.
LiveObservations ==
    {Observation(now, 1, 0, A, form) : A \in Absences, form \in AbsentForms}

FetchOKLive == Fetch(LiveObservations)

LoopLive ==
    FetchOKLive \/ FetchFatal \/ FetchFailed \/ BackoffOver \/ Publish \/ SleepOver

\* The goroutine is scheduled, the fetch returns within its timeout and a
\* sleep ends: the loop takes its next step whenever it has one.
SpecLive == Init /\ [][LoopLive]_vars /\ WF_vars(LoopLive)

\* The loop right after a successful first fetch whose observation carries
\* the heading d, for every whole d up to MaxDeg; its one step is the
\* Publishing pass, which labels the series with CardinalDirection(d).
InitCardinal ==
    /\ pc = "Publishing"
    /\ failfast \in BOOLEAN
    /\ verbose \in BOOLEAN
    /\ backofftime \in BackoffTimes
    /\ now = 0
    /\ \E d \in 0..MaxDeg :
          /\ response = Ptr([Properties |-> Observation(0, 1, d, {}, Nil)])
          /\ lastValue = SeenValue([n \in FieldNames |-> 0], Observation(0, 1, d, {}, Nil))
          /\ lastHeading = SeenHeading(<<>>, Observation(0, 1, d, {}, Nil))
    /\ missingProperties = <<>>
    /\ log = <<>>
    /\ errs = 0
    /\ lastUpdate = [at |-> 0, age |-> 0]
    /\ slept = <<>>
    /\ step = 0
    /\ scraped = NoScrape
    /\ humidity = 0
    /\ temperature = 0
    /\ dewpoint = 0
    /\ winddirection = <<>>
    /\ windspeed = 0
    /\ barometricpressure = 0
    /\ sealevelpressure = 0
    /\ visibility = 0
    /\ timeSinceUpdate = 0

SpecCardinal == InitCardinal /\ [][Publish]_vars

\* ------------------------------------------- the Set calls one at a time
\* The gauges are shared with the handler of /metrics, which runs on other
\* goroutines: below, the Publishing pass is taken one Set at a time and a
\* request reads the gauges one at a time.

\* What the loop body writes from, in the order of its statements: the
\* timestamp (time_since_update), then the eight sensors.
StatementsTimeLast == Fields \o <<"Timestamp">>

Statements == <<"Timestamp">> \o Fields

Metrics == {Statements[i] : i \in 1..Len(Statements)}

\* The pass is over after k statements.
FinishedEarly(k) == k = Len(Statements) - 1

Finished(k) == k = Len(Statements)

\* The metric fed by n, as a request reads it: a gauge's value, or the
\* series of the family.
Val(n) ==
    CASE n = "Timestamp" -> timeSinceUpdate
      [] n = "RelativeHumidity" -> humidity
      [] n = "Temperature" -> temperature
      [] n = "Dewpoint" -> dewpoint
      [] n = "WindDirection" -> winddirection
      [] n = "WindSpeed" -> windspeed
      [] n = "BarometricPressure" -> barometricpressure
      [] n = "SeaLevelPressure" -> sealevelpressure
      [] n = "Visibility" -> visibility

\* The observations of the runs that look at the interleaving: every sensor
\* present, one heading, any reading and timestamp.
FineObservations ==
    {Observation(ts, s, 318, {}, Nil) : ts \in 0..now, s \in 1..MaxVal}

FetchFine == Fetch(FineObservations)

\* One statement of the loop body after the fetch: statement number step+1
\* of Statements, and after the last of them the log of the missing list
\* and the verbose log of the wait.
PublishStep ==
    /\ pc = "Publishing"
    /\ LET P == response[1].Properties
           t == IF Finished(step) THEN "None" ELSE Statements[step + 1]
       IN
        /\ timeSinceUpdate' =
              IF t = "Timestamp" THEN Since(now, P.Timestamp) ELSE timeSinceUpdate
        /\ lastUpdate' =
              IF t = "Timestamp" THEN [at |-> now, age |-> now - P.Timestamp]
              ELSE lastUpdate
        /\ humidity' =
              IF t = "RelativeHumidity" THEN SetGauge(humidity, P.RelativeHumidity)
              ELSE humidity
        /\ temperature' =
              IF t = "Temperature" THEN SetGauge(temperature, P.Temperature)
              ELSE temperature
        /\ dewpoint' =
              IF t = "Dewpoint" THEN SetGauge(dewpoint, P.Dewpoint) ELSE dewpoint
        /\ winddirection' =
              IF t = "WindDirection" THEN SetWindDirection(winddirection, P.WindDirection)
              ELSE winddirection
        /\ windspeed' =
              IF t = "WindSpeed" THEN SetGauge(windspeed, P.WindSpeed) ELSE windspeed
        /\ barometricpressure' =
              IF t = "BarometricPressure"
              THEN SetGauge(barometricpressure, P.BarometricPressure)
              ELSE barometricpressure
        /\ sealevelpressure' =
              IF t = "SeaLevelPressure"
              THEN SetGauge(sealevelpressure, P.SeaLevelPressure)
              ELSE sealevelpressure
        /\ visibility' =
              IF t = "Visibility" THEN SetGauge(visibility, P.Visibility)
              ELSE visibility
        /\ missingProperties' =
              IF t \in FieldNames
              THEN AppendIfMissing(missingProperties, P[t], t)
              ELSE missingProperties
        /\ log' =
              IF Finished(step) THEN PublishLog(missingProperties) ELSE log
        /\ step' = IF Finished(step) THEN 0 ELSE step + 1
        /\ pc' = IF Finished(step) THEN "Sleeping" ELSE "Publishing"
    /\ UNCHANGED <<config, now, response, errs, slept, hist, scraped>>

\* A request to /metrics arrives.  The handler gathers every metric; the
\* model follows two of them, g1 read before g2, for every such pair.
ScrapeBegin ==
    /\ scraped = NoScrape
    /\ \E g1 \in Metrics, g2 \in Metrics :
          /\ g1 # g2
          /\ scraped' = [watch |-> <<g1, g2>>, got |-> <<>>]
    /\ UNCHANGED <<pc, config, now, response, missingProperties, log, errs,
                   lastUpdate, slept, hist, step, gauges>>

\* The handler reads the next metric: one atomic load of a gauge, or the
\* series of the family under its lock.
ScrapeRead ==
    /\ scraped # NoScrape
    /\ Len(scraped.got) < Len(scraped.watch)
    /\ scraped' = [scraped EXCEPT
                     !.got = Append(@, Val(scraped.watch[Len(scraped.got) + 1]))]
    /\ UNCHANGED <<pc, config, now, response, missingProperties, log, errs,
                   lastUpdate, slept, hist, step, gauges>>

\* The response is written and the request is over.
ScrapeEnd ==
    /\ scraped # NoScrape
    /\ Len(scraped.got) = Len(scraped.watch)
    /\ scraped' = NoScrape
    /\ UNCHANGED <<pc, config, now, response, missingProperties, log, errs,
                   lastUpdate, slept, hist, step, gauges>>

LoopFine ==
    FetchFine \/ FetchFatal \/ FetchFailed \/ BackoffOver \/ PublishStep \/ SleepOver

NextFine == LoopFine \/ ScrapeBegin \/ ScrapeRead \/ ScrapeEnd

SpecFine == Init /\ [][NextFine]_vars

\* ===================================================================
\* Properties
\* ===================================================================
\* The observation the current iteration fetched.
Props == response[1].Properties

\* A sensor is absent when its wrapper is nil or its inner value is nil.
Absent(f) == f = Nil \/ f[1].Value = Nil

ValueOf(f) == f[1].Value[1]

InList(name, m) == \E i \in 1..Len(m) : m[i] = name

AllPresent(P) == \A n \in FieldNames : ~Absent(P[n])

\* What one Publishing pass must leave in a plain gauge and in the missing
\* list for sensor f named n: old is the gauge before, new the gauge after.
Mirrored(f, n, old, new, missing) ==
    IF Absent(f)
    THEN new = old /\ InList(n, missing)
    ELSE new = ValueOf(f) /\ ~InList(n, missing)

\* The same for the labelled wind_direction family.
WindMirrored(f, old, new, missing) ==
    IF Absent(f)
    THEN new = old /\ InList("WindDirection", missing)
    ELSE /\ ~InList("WindDirection", missing)
         /\ DOMAIN new = DOMAIN old \cup {CardinalDirection(ValueOf(f))}
         /\ new[CardinalDirection(ValueOf(f))] = ValueOf(f)
         /\ \A l \in DOMAIN old \ {CardinalDirection(ValueOf(f))} : new[l] = old[l]

\* A Publishing pass mirrors every sensor of the observation, one by one.
PublishedAll ==
    /\ Mirrored(Props.RelativeHumidity, "RelativeHumidity", humidity, humidity', missingProperties')
    /\ Mirrored(Props.Temperature, "Temperature", temperature, temperature', missingProperties')
    /\ Mirrored(Props.Dewpoint, "Dewpoint", dewpoint, dewpoint', missingProperties')
    /\ WindMirrored(Props.WindDirection, winddirection, winddirection', missingProperties')
    /\ Mirrored(Props.WindSpeed, "WindSpeed", windspeed, windspeed', missingProperties')
    /\ Mirrored(Props.BarometricPressure, "BarometricPressure", barometricpressure, barometricpressure', missingProperties')
    /\ Mirrored(Props.SeaLevelPressure, "SeaLevelPressure", sealevelpressure, sealevelpressure', missingProperties')
    /\ Mirrored(Props.Visibility, "Visibility", visibility, visibility', missingProperties')
    /\ timeSinceUpdate' = now - Props.Timestamp

\* A fetch that returned an error: the loop leaves Polling, not for Publishing.
FetchErrorStep == pc = "Polling" /\ pc' # "Publishing"

\* C1: with fail-fast off a failed cycle (the error branch and its sleep)
\* changes no gauge and leads back to Polling; the failure count is not an
\* input of the next successful cycle, which publishes its observation as a
\* cycle that follows no failure does.
C1_FailedCycleChangesNoGauge ==
    [][/\ (FetchErrorStep /\ ~failfast) => (pc' = "Backoff" /\ gauges' = gauges)
       /\ (pc = "Backoff") => (pc' = "Polling" /\ gauges' = gauges /\ ~failfast)
       /\ (pc = "Polling" /\ errs > 0 /\ pc' = "Publishing") => gauges' = gauges
       /\ (pc = "Publishing" /\ errs > 0) => (PublishedAll /\ pc' = "Sleeping")
      ]_vars

\* C1 witness: a successful cycle that follows MaxErrs failed ones has
\* published a full observation.
C1_Witness ==
    /\ pc = "Sleeping" /\ ~failfast /\ errs = MaxErrs
    /\ AllPresent(Props)
    /\ temperature = ValueOf(Props.Temperature)
    /\ timeSinceUpdate = now - Props.Timestamp

\* C2: with fail-fast on, a fetch error ends the process at once: the loop
\* goes from Polling to Exited with no gauge changed and no sleep taken
\* (the clock has not moved, Backoff is never entered), nothing happens
\* after Exited, and the successful cycles before it publish as usual.
C2_FailFastExitsAtOnce ==
    [][/\ (FetchErrorStep /\ failfast)
            => (pc' = "Exited" /\ gauges' = gauges /\ now' = now /\ log' = <<"error">>)
       /\ pc # "Exited"
       /\ failfast => pc' # "Backoff"
       /\ (pc = "Publishing" /\ failfast) => (PublishedAll /\ pc' = "Sleeping")
      ]_vars

\* C2 witness: the process has exited on an error after successful cycles.
C2_Witness ==
    /\ pc = "Exited" /\ failfast /\ errs = 1
    /\ temperature # 0 /\ log = <<"error">> /\ now = MaxClock

\* C3: after the Publishing pass of an observation with all eight sensors
\* present, every gauge holds the value of its sensor; for wind direction
\* that is the series of the heading's compass label.
C3_AllPresentAllMirrored ==
    (pc = "Sleeping" /\ AllPresent(Props)) =>
        /\ humidity = ValueOf(Props.RelativeHumidity)
        /\ temperature = ValueOf(Props.Temperature)
        /\ dewpoint = ValueOf(Props.Dewpoint)
        /\ CardinalDirection(ValueOf(Props.WindDirection)) \in DOMAIN winddirection
        /\ winddirection[CardinalDirection(ValueOf(Props.WindDirection))]
              = ValueOf(Props.WindDirection)
        /\ windspeed = ValueOf(Props.WindSpeed)
        /\ barometricpressure = ValueOf(Props.BarometricPressure)
        /\ sealevelpressure = ValueOf(Props.SeaLevelPressure)
        /\ visibility = ValueOf(Props.Visibility)

\* C3 witness: a full observation has been published.
C3_Witness ==
    /\ pc = "Sleeping" /\ AllPresent(Props)
    /\ humidity = Reading(1, 1) /\ visibility = Reading(8, 1)
    /\ winddirection = [l \in {"N", "NW"} |-> IF l = "N" THEN 339 ELSE 318]

\* C4: in a Publishing pass every absent sensor (nil wrapper or nil inner
\* value) leaves its gauge as it was and puts its name on the missing list,
\* and every present sensor is written to its gauge, whatever the others are.
C4_AbsentKeepsPresentWrites ==
    [][pc = "Publishing" => PublishedAll]_vars

\* C4 witness: humidity was absent (nil inner value) and kept the value of
\* an earlier cycle while the seven other sensors were written.
C4_Witness ==
    /\ pc = "Sleeping"
    /\ Props.RelativeHumidity = NilValue
    /\ \A n \in FieldNames \ {"RelativeHumidity"} : ~Absent(Props[n])
    /\ humidity = Reading(1, 1)
    /\ temperature = ValueOf(Props.Temperature)
    /\ missingProperties = <<"RelativeHumidity">>

\* C5: every Publishing pass sets time_since_update to the clock minus the
\* observation's timestamp, whichever sensors are present.
C5_TimeSinceUpdateAlwaysSet ==
    [][pc = "Publishing" =>
          /\ timeSinceUpdate' = now - Props.Timestamp
          /\ lastUpdate'.at = now]_vars

\* C5 witness: an observation with all eight sensors absent set it to 1.
C5_Witness ==
    /\ pc = "Sleeping"
    /\ \A n \in FieldNames : Absent(Props[n])
    /\ Len(missingProperties) = 8
    /\ now = 1 /\ Props.Timestamp = 0 /\ timeSinceUpdate = 1

\* C6: a Publishing pass with heading d sets the series of d's compass label
\* to d and leaves every other series as it was (same labels, same values);
\* without a heading the family does not change.
C6_OnlyOwnSeriesChanges ==
    [][pc = "Publishing" =>
          IF Absent(Props.WindDirection)
          THEN winddirection' = winddirection
          ELSE LET d == ValueOf(Props.WindDirection)
                   l == CardinalDirection(d)
               IN  /\ l \in DOMAIN winddirection'
                   /\ winddirection'[l] = d
                   /\ DOMAIN winddirection' \ {l} = DOMAIN winddirection \ {l}
                   /\ \A k \in DOMAIN winddirection \ {l} :
                          winddirection'[k] = winddirection[k]
      ]_vars

\* C6 witness: heading 339 was just written to N while the NW series of an
\* earlier cycle still holds 318.
C6_Witness ==
    /\ pc = "Sleeping"
    /\ ~Absent(Props.WindDirection) /\ ValueOf(Props.WindDirection) = 339
    /\ DOMAIN winddirection = {"N", "NW"}
    /\ winddirection["N"] = 339 /\ winddirection["NW"] = 318

\* C7 as stated: after failed cycles during which the clock has advanced,
\* the gauge has grown beyond the value the last successful cycle set.
C7_Original ==
    (pc = "Polling" /\ ~failfast /\ errs >= 1 /\ now > lastUpdate.at)
        => timeSinceUpdate > lastUpdate.age

\* C7 amended: time_since_update always holds the value the last successful
\* cycle set (0 before the first one); failed cycles do not make it grow.
C7_FrozenWhileFetchesFail ==
    /\ timeSinceUpdate = lastUpdate.age
    /\ lastUpdate.at <= now

\* C7 witness: a cycle has failed and the clock has advanced since the last
\* successful cycle, whose value the gauge still shows.
C7_Witness ==
    /\ pc = "Polling" /\ ~failfast /\ errs = MaxErrs
    /\ temperature # 0
    /\ now > lastUpdate.at
    /\ timeSinceUpdate = 0

\* The order of the loop's states: a fetch ends in Publishing or in the
\* error branch, Publishing ends in the sleep, a sleep ends in a new fetch.
CycleOrder ==
    /\ pc = "Polling" => pc' \in {"Publishing", "Backoff"}
    /\ pc = "Publishing" => pc' = "Sleeping"
    /\ pc \in {"Sleeping", "Backoff"} => pc' = "Polling"

\* C8: with fail-fast off the loop never stops: it is never in a terminal
\* state and always has a next step, every cycle ends in a sleep followed
\* by a new fetch, and Polling is reached again and again, however many
\* fetches have failed.
C8_LoopNeverStops ==
    /\ [](failfast \/ (pc # "Exited" /\ ENABLED LoopLive))
    /\ [][failfast \/ CycleOrder]_vars
    /\ []<>(failfast \/ pc = "Polling")

\* C8 witness: the loop polls again after successes and MaxErrs failures.
C8_Witness ==
    /\ pc = "Polling" /\ ~failfast /\ errs = MaxErrs
    /\ now = MaxClock /\ temperature # 0

\* The 45-degree arc of compass point k (0 = N .. 7 = NW), centred on 45k
\* degrees: [45k - 22.5, 45k + 22.5), the arc of N wrapping around 360.
InArc(k, x) ==
    IF k = 0 THEN 2 * x < 45 \/ 2 * x >= 675
    ELSE 90 * k - 45 <= 2 * x /\ 2 * x < 90 * k + 45

C10_Original == pc = "Backoff" => Len(log) = 1

\* C10 amended: the error branch logs exactly two lines before it sleeps,
\* the error report and the notice of the wait, whatever -verbose is.
C10_TwoLogLines ==
    pc = "Backoff" => log = <<"Problem retrieving", "Waiting">>

\* C10 witness: a failed cycle without -verbose is asleep with two lines.
C10_Witness ==
    /\ pc = "Backoff" /\ ~failfast /\ ~verbose
    /\ Len(log) = 2

\* What an iteration that has reached p with the missing list m has logged
\* without -verbose.
QuietLines(p, m) ==
    CASE p = "Backoff" -> <<"Problem retrieving", "Waiting">>
      [] p = "Exited" -> <<"error">>
      [] p = "Sleeping" ->
            IF m # <<>> THEN <<"some properties are missing">> ELSE <<>>
      [] OTHER -> <<>>

\* The effect of a step on the loop's state and on the gauges, written
\* without -verbose: it is fixed by the state before and the fetch outcome.
QuietEffect ==
    /\ pc = "Polling" =>
          /\ pc' \in {"Publishing", IF failfast THEN "Exited" ELSE "Backoff"}
          /\ gauges' = gauges /\ now' = now
          /\ pc' # "Publishing" => response' = response
    /\ pc = "Publishing" =>
          /\ pc' = "Sleeping" /\ PublishedAll
          /\ now' = now /\ response' = response
    /\ pc \in {"Sleeping", "Backoff"} =>
          /\ pc' = "Polling" /\ gauges' = gauges
          /\ now' = Min(now + backofftime, MaxClock)
          /\ slept' = <<backofftime>>
    /\ pc # "Exited"

\* C11: -verbose is no input of the loop: every step moves the loop's state
\* and the gauges as QuietEffect says, in which -verbose does not occur, so
\* two runs with the same fetch outcomes that differ in -verbose only go
\* through the same states and gauge values; -verbose only adds the line of
\* the raw JSON before, and the line of the wait after, the lines of a
\* successful iteration.
C11_VerboseOnlyAddsLogLines ==
    [][/\ QuietEffect
       /\ <<failfast, verbose, backofftime>>' = <<failfast, verbose, backofftime>>
       /\ log' = IF verbose /\ pc' = "Sleeping"
                 THEN <<"raw json response">>
                      \o QuietLines(pc', missingProperties')
                      \o <<"Waiting">>
                 ELSE QuietLines(pc', missingProperties')
      ]_vars

\* C11 witness: a verbose run is back at Polling after a successful cycle
\* and the clock has advanced by the sleep.
C11_Witness ==
    /\ pc = "Polling" /\ verbose /\ errs = 0
    /\ now = 1 /\ slept = <<1>> /\ temperature # 0 /\ log = <<>>

C13_OneSleepBetweenFetches ==
    /\ [](/\ Len(slept) <= 1
          /\ pc # "Polling" => slept = <<>>)
    /\ [][/\ pc' = "Polling" =>
                /\ pc \in {"Sleeping", "Backoff"}
                /\ slept' = <<backofftime>>
                /\ now' = Min(now + backofftime, MaxClock)
          /\ pc = "Polling" => (pc' # "Polling" /\ slept' = <<>> /\ now' = now)
          /\ pc = "Publishing" => (slept' = <<>> /\ now' = now)
         ]_vars

\* C13 witness: the loop is about to fetch after MaxErrs failures and has
\* slept once, for backofftime seconds, since the last fetch.
C13_Witness ==
    /\ pc = "Polling" /\ ~failfast /\ errs = MaxErrs
    /\ slept = <<backofftime>> /\ temperature # 0

\* The names of the sensors absent from P, in the order of Fields.
AbsentNames(P) == SelectSeq(Fields, LAMBDA n : Absent(P[n]))

Count(line, l) == Cardinality({i \in 1..Len(l) : l[i] = line})

\* C15: the missing list is empty when an iteration starts; a Publishing
\* pass leaves in it the names of the absent sensors of its observation,
\* once each and in the order of the source; it is logged in one line if and
\* only if it is not empty; the iteration then sleeps and the next starts
\* with an empty list.
C15_MissingListPerCycle ==
    /\ [](pc \in {"Polling", "Publishing", "Backoff"} => missingProperties = <<>>)
    /\ [][/\ pc = "Publishing" =>
                /\ missingProperties' = AbsentNames(Props)
                /\ Count("some properties are missing", log')
                      = IF AbsentNames(Props) # <<>> THEN 1 ELSE 0
                /\ pc' = "Sleeping"
          /\ pc = "Sleeping" => (pc' = "Polling" /\ missingProperties' = <<>>)
         ]_vars

\* C15 witness: an observation without any sensor left all eight names.
C15_Witness ==
    /\ pc = "Sleeping" /\ ~verbose
    /\ missingProperties = Fields
    /\ log = <<"some properties are missing">>
    /\ humidity # 0

\* C16: between Publishing passes the wind_direction family has one series
\* per compass label of a heading fetched so far, each holding the last
\* heading fetched under its label; it starts empty and never loses a series.
C16_FamilyIsLabelsSeen ==
    /\ [](pc # "Publishing" => winddirection = lastHeading)
    /\ [][DOMAIN winddirection \subseteq DOMAIN winddirection']_vars

\* C16 witness: the heading is 318 now (NW) and the N series still holds 339.
C16_Witness ==
    /\ pc = "Sleeping"
    /\ ~Absent(Props.WindDirection) /\ ValueOf(Props.WindDirection) = 318
    /\ DOMAIN winddirection = {"N", "NW"}
    /\ winddirection["N"] = 339 /\ winddirection["NW"] = 318

\* A value the loop can have stored in the metric fed by n: the initial
\* zero (no series for the family), or a reading of its own sensor, an age,
\* or series that each hold a heading of their own label.
ValidRead(n, v) ==
    CASE n = "Timestamp" -> v \in 0..MaxClock
      [] n = "WindDirection" ->
            /\ DOMAIN v \subseteq Labels
            /\ \A l \in DOMAIN v : v[l] \in WindDegrees /\ CardinalDirection(v[l]) = l
      [] OTHER ->
            \/ v = 0
            \/ \E i \in 1..Len(Fields), r \in 1..MaxVal :
                  Fields[i] = n /\ v = Reading(i, r)

\* What the metric fed by n holds once the Publishing pass of the last
\* fetched observation is over.
Settled(n) ==
    CASE n = "Timestamp" -> lastUpdate.age
      [] n = "WindDirection" -> lastHeading
      [] OTHER -> lastValue[n]

\* The request reads a metric in this step.
Reads == Len(scraped'.got) = Len(scraped.got) + 1

\* C14: a request reads values the loop stored (or the initial zero), never
\* anything else; a request that overlaps a Publishing pass can pair a value
\* of the new observation with a value from before it (the witness); a read
\* made once the pass is over returns the value of that cycle.
C14_ScrapeSeesSetValues ==
    /\ [](\A i \in 1..Len(scraped.got) : ValidRead(scraped.watch[i], scraped.got[i]))
    /\ [][(Reads /\ pc = "Sleeping") =>
            scraped'.got[Len(scraped'.got)] = Settled(scraped.watch[Len(scraped'.got)])
         ]_vars

\* C14 witness: a torn snapshot: the request read the humidity of the
\* observation and then the temperature from before it, which the loop has
\* replaced since.
C14_Witness ==
    /\ scraped.watch = <<"RelativeHumidity", "Temperature">>
    /\ scraped.got = <<Reading(1, 1), 0>>
    /\ temperature = Reading(2, 1)

\* The order in which the loop body writes the metrics.
WriteOrder ==
    <<"Timestamp", "RelativeHumidity", "Temperature", "Dewpoint", "WindDirection",
      "WindSpeed", "BarometricPressure", "SeaLevelPressure", "Visibility">>

\* C17 as stated: a request that reads a sensor's value of the new
\* observation (here in the first Publishing pass, so the value is new) has
\* read that cycle's time_since_update.
C17_Original ==
    [][(/\ Reads /\ Len(scraped.got) = 1
        /\ scraped.watch[1] = "Timestamp"
        /\ scraped.watch[2] \in FieldNames \ {"WindDirection", "Visibility"}
        /\ pc = "Publishing" /\ visibility = 0
        /\ scraped'.got[2] = Deref(Props[scraped.watch[2]]))
       => scraped.got[1] = now - Props.Timestamp
      ]_vars

\* C17: the Publishing pass writes time_since_update first and then the
\* sensors in the order of the source, one metric per statement; so while a
\* sensor's gauge is being written, and from the first statement to the end
\* of the pass, time_since_update holds the age of that cycle, and a read of
\* it made then returns that age.  (A request reads the metrics one after
\* another: one that read time_since_update before the pass can pair the
\* previous age with a new sensor value, which is the witness.)
C17_TimeWrittenFirst ==
    /\ [][(pc = "Publishing" /\ step < Len(WriteOrder) /\ scraped' = scraped) =>
            /\ \A n \in Metrics :
                  Val(n)' = IF n # WriteOrder[step + 1] THEN Val(n)
                            ELSE IF step = 0 THEN now - Props.Timestamp
                            ELSE Settled(n)
            /\ step' = step + 1
         ]_vars
    /\ []((pc = "Publishing" /\ step >= 1) => timeSinceUpdate = now - Props.Timestamp)
    /\ [][(/\ Reads /\ pc = "Publishing" /\ step >= 1
           /\ scraped.watch[Len(scraped'.got)] = "Timestamp")
          => scraped'.got[Len(scraped'.got)] = now - Props.Timestamp
         ]_vars

\* C17 witness: the request read time_since_update before the pass and the
\* humidity after the pass had written it: the previous age (0) with the
\* new humidity, while time_since_update holds the new age.
C17_Witness ==
    /\ pc = "Publishing" /\ visibility = 0
    /\ scraped.watch = <<"Timestamp", "RelativeHumidity">>
    /\ scraped.got = <<0, Reading(1, 1)>>
    /\ timeSinceUpdate = 1

====
